---------------------------- MODULE Spec2Model ----------------------------
(* WebSocket upgrade gateway of packages/core/src/node/messaging/connection.ts *)
(* openSocket (upgrade matcher, handshake acceptor, heartbeat timer) and   *)
(* toIWebSocket (the channel adapter handed out by openJsonRpcSocket).     *)
(* Strings are tuples of one-character strings; the JavaScript value       *)
(* undefined is the tuple Undefined.                                       *)
EXTENDS Integers, Sequences, FiniteSets, TLC

\* ------------------------------------------------------------- bounds
\* registrations (openSocket calls) on one transport server
MaxReg == 2
\* sockets accepted into the pools
MaxConn == 2
\* sockets accepted where one socket is followed through its whole life
MaxDeepConn == 1
\* timer callbacks
MaxTicks == 2
\* timer callbacks where the whole pool is followed
MaxWideTicks == 1
\* dispose() calls per channel
MaxDispose == 2
\* failed send() calls per channel
MaxSends == 1
\* observers registered per channel and event
MaxObs == 1
\* observers registered per channel and event where the fan-out is followed
MaxFanObs == 2
\* 'message' events per socket
MaxMsgs == 2
\* 'error' events per socket
MaxErrors == 1
\* time units of the idle window of the protocol-ping mode
IdleWindow == 2
\* characters of a request URL and of a registration path
MaxUrlLen == 3
MaxPathLen == 2

\* ---------------------------------------------------------- constants
\* WebSocket.readyState values used by `webSocket.readyState < ws.CLOSING`
CONNECTING == 0
OPEN == 1
CLOSING == 2
CLOSED == 3

Reg == 1..MaxReg
Conn == 1..MaxConn
Undefined == <<"undefined">>
NoMatcher == "undefined"
Alphabet == {"/", "r", "?", "#"}

\* liveness wire format of the protocol-ping mode, and the payloads a peer sends
PingSentinel == "{\"kind\":\"ping\"}"
PongSentinel == "{\"kind\":\"pong\"}"
Payloads == {PingSentinel, "{\"kind\":\"PING\"}", "hello"}

RECURSIVE Strings(_)
Strings(n) ==
    IF n = 0 THEN {<<>>}
    ELSE LET S == Strings(n - 1)
         IN S \cup {Append(s, ch) : s \in {t \in S : Len(t) = n - 1}, ch \in Alphabet}

Range(s) == {s[i] : i \in 1..Len(s)}

\* ------------------------------------------------------ upgrade matcher
\* index of the first occurrence of ch in s, 0 when absent (String#indexOf + 1)
IndexOf(s, ch) ==
    IF \E i \in 1..Len(s) : s[i] = ch
    THEN CHOOSE i \in 1..Len(s) : s[i] = ch /\ \A j \in 1..(i - 1) : s[j] # ch
    ELSE 0

\* url.parse(u).pathname: the fragment is cut at the first "#", then the
\* query at the first "?" of what is left; an empty remainder has no pathname.
UrlParsePathname(u) ==
    LET h == IndexOf(u, "#")
        noHash == IF h = 0 THEN u ELSE SubSeq(u, 1, h - 1)
        q == IndexOf(noHash, "?")
        rest == IF q = 0 THEN noHash ELSE SubSeq(noHash, 1, q - 1)
    IN IF rest = <<>> THEN Undefined ELSE rest

\* JavaScript truthiness of an optional string
Truthy(s) == s # Undefined /\ s # <<>>

\* const pathname = request.url ? url.parse(request.url).pathname : undefined
PathnameWholeUrl(req) == IF Truthy(req.url) THEN req.url ELSE Undefined
Pathname(req) == IF Truthy(req.url) THEN UrlParsePathname(req.url) ELSE Undefined

\* the caller-supplied predicates options.matches(request) of the model
Matchers == {"matchAll", "matchNone", "matchQuery"}
Matches(f, req) ==
    CASE f = "matchAll" -> TRUE
      [] f = "matchNone" -> FALSE
      [] f = "matchQuery" -> Truthy(req.url) /\ "?" \in Range(req.url)
      [] OTHER -> FALSE

\* options.path && pathname === options.path || options.matches && options.matches(request)
ClaimsIgnoringAbsence(opts, req) ==
    \/ Pathname(req) = opts.path
    \/ Matches(opts.matches, req)
Claims(opts, req) ==
    \/ Truthy(opts.path) /\ Pathname(req) = opts.path
    \/ opts.matches # NoMatcher /\ Matches(opts.matches, req)

Urls == Strings(MaxUrlLen) \cup {Undefined}
Paths == Strings(MaxPathLen) \cup {Undefined}
AllRequests == [url : Urls]
AllOptions == [path : Paths, matches : Matchers \cup {NoMatcher}]

\* a registration with neither path nor predicate: it claims no request
NoOptions == [path |-> Undefined, matches |-> NoMatcher]

\* the registration and requests of the connection-level specifications
RegOptions == { [path |-> <<"/", "r">>, matches |-> NoMatcher] }
Requests == { [url |-> <<"/", "r", "?">>] }
NoUpgrade == [req |-> [url |-> Undefined], claimed |-> [r \in Reg |-> FALSE],
              seen |-> FALSE, written |-> 0, destroyed |-> FALSE]

\* ---------------------------------------------------------------- state
VARIABLES
    options,        \* IServerOptions of every registration (path, matches)
    emitsConnection,\* whether wss emits 'connection' for a socket of handleUpgrade
    sockets,        \* number of sockets wss.handleUpgrade has produced
    readyState,     \* webSocket.readyState of every socket
    clients,        \* wss.clients of every registration, in insertion order
    isAlive,        \* extWs.isAlive: "undefined", "true" or "false"
    pongListeners,  \* number of 'pong' listeners registered on the socket
    openListeners,  \* number of 'open' listeners registered on the socket
    onOpenCalls,    \* invocations of the onOpen callback for the socket
    channels,       \* channels toIWebSocket built: <<socket, invocation of onOpen>>
    pendingPong,    \* pings written to the peer and not yet answered
    responsive,     \* sockets whose every probe was sent and answered in time
    tickCount,      \* timer callbacks every registration has run so far
    closeObs,       \* observers registered through onClose
    closeLate,      \* those of them registered after 'close' was emitted
    closeFired,     \* invocations of each close observer
    errObs,         \* number of observers registered through onError
    errCalls,       \* invocations of error observers
    closeCalls,     \* webSocket.close() calls issued by dispose
    disposeCalls,   \* dispose() calls
    sendLog,        \* send errors written to console.log
    msgObs,         \* observers registered through onMessage, as the socket lists them
    emitted,        \* the events every socket emitted, in order
    delivered,      \* observer invocations: << event number, event, observer >>
    received,       \* protocol-ping mode: payloads received from the peer
    outbound,       \* protocol-ping mode: payloads the monitor sent to the peer
    idle,           \* protocol-ping mode: time units since the last message
    idleClosed,     \* protocol-ping mode: sockets the idle timeout closed
    uncaught,       \* handler the last step let an exception escape from, or "none"
    running,        \* the node process is alive
    lastUpgrade     \* the last 'upgrade' event, every registration's decision
                    \* and what was done to the raw socket

vars == << options, emitsConnection, sockets, readyState, clients, isAlive, pongListeners,
           openListeners, onOpenCalls, channels, pendingPong, responsive,
           tickCount, closeObs, closeLate, closeFired, errObs, errCalls, closeCalls,
           disposeCalls, sendLog, msgObs, emitted, delivered, received,
           outbound, idle, idleClosed, uncaught, running, lastUpgrade >>

connVars == << readyState, clients, isAlive, pongListeners, openListeners,
               onOpenCalls, channels, pendingPong, responsive >>
fanVars == << msgObs, emitted, delivered >>
pingVars == << received, outbound, idle, idleClosed >>
channelVars == << closeObs, closeLate, closeFired, errObs, errCalls,
                  closeCalls, disposeCalls, sendLog, fanVars, pingVars >>

ObsId == 1..(MaxObs + MaxFanObs)

InitState ==
    /\ sockets = 0
    /\ readyState = [c \in Conn |-> CONNECTING]
    /\ clients = [r \in Reg |-> <<>>]
    /\ isAlive = [c \in Conn |-> "undefined"]
    /\ pongListeners = [c \in Conn |-> 0]
    /\ openListeners = [c \in Conn |-> 0]
    /\ onOpenCalls = [c \in Conn |-> 0]
    /\ channels = {}
    /\ pendingPong = [c \in Conn |-> 0]
    /\ responsive = {}
    /\ tickCount = [r \in Reg |-> 0]
    /\ closeObs = [c \in Conn |-> <<>>]
    /\ closeLate = [c \in Conn |-> {}]
    /\ closeFired = [c \in Conn |-> [o \in ObsId |-> 0]]
    /\ errObs = [c \in Conn |-> 0]
    /\ errCalls = [c \in Conn |-> 0]
    /\ closeCalls = [c \in Conn |-> 0]
    /\ disposeCalls = [c \in Conn |-> 0]
    /\ sendLog = [c \in Conn |-> 0]
    /\ msgObs = [c \in Conn |-> <<>>]
    /\ emitted = [c \in Conn |-> <<>>]
    /\ delivered = [c \in Conn |-> <<>>]
    /\ received = [c \in Conn |-> <<>>]
    /\ outbound = [c \in Conn |-> <<>>]
    /\ idle = [c \in Conn |-> 0]
    /\ idleClosed = {}
    /\ uncaught = "none"
    /\ running = TRUE
    /\ lastUpgrade = NoUpgrade

\* one registration that claims requests; the others claim none
OneRegistration(S) == { [r \in Reg |-> IF r = 1 THEN o ELSE NoOptions] : o \in S }

Init == options \in OneRegistration(RegOptions) /\ emitsConnection \in BOOLEAN /\ InitState
InitMatch == options \in OneRegistration(AllOptions) /\ emitsConnection \in BOOLEAN /\ InitState

\* several registrations on one transport server: the first claims by path,
\* the others by a predicate (a request with a query under the path is
\* claimed by all of them)
PairOptions ==
    [r \in Reg |-> IF r = 1 THEN [path |-> <<"/", "r">>, matches |-> NoMatcher]
                   ELSE [path |-> Undefined, matches |-> "matchQuery"]]
PairRequests == { [url |-> <<"/", "r", "?">>], [url |-> <<"/", "r">>],
                  [url |-> <<"/", "?">>], [url |-> <<"/">>], [url |-> Undefined] }

InitRegs == options = PairOptions /\ emitsConnection \in BOOLEAN /\ InitState

\* the state in which openJsonRpcSocket has handed out its first channel:
\* registration 1 claimed a request, the handshake yielded an OPEN socket
\* and onOpen ran for it
InitChannel ==
    /\ options \in OneRegistration(RegOptions)
    /\ emitsConnection \in BOOLEAN
    /\ sockets = 1
    /\ readyState = [c \in Conn |-> IF c = 1 THEN OPEN ELSE CONNECTING]
    /\ clients = [r \in Reg |-> IF r = 1 THEN << 1 >> ELSE <<>>]
    /\ isAlive = [c \in Conn |-> IF c = 1 /\ emitsConnection THEN "true" ELSE "undefined"]
    /\ pongListeners = [c \in Conn |-> IF c = 1 /\ emitsConnection THEN 1 ELSE 0]
    /\ openListeners = [c \in Conn |-> 0]
    /\ onOpenCalls = [c \in Conn |-> IF c = 1 THEN 1 ELSE 0]
    /\ channels = {<< 1, 1 >>}
    /\ pendingPong = [c \in Conn |-> 0]
    /\ responsive = {1}
    /\ tickCount = [r \in Reg |-> 0]
    /\ closeObs = [c \in Conn |-> <<>>]
    /\ closeLate = [c \in Conn |-> {}]
    /\ closeFired = [c \in Conn |-> [o \in ObsId |-> 0]]
    /\ errObs = [c \in Conn |-> 0]
    /\ errCalls = [c \in Conn |-> 0]
    /\ closeCalls = [c \in Conn |-> 0]
    /\ disposeCalls = [c \in Conn |-> 0]
    /\ sendLog = [c \in Conn |-> 0]
    /\ msgObs = [c \in Conn |-> <<>>]
    /\ emitted = [c \in Conn |-> <<>>]
    /\ delivered = [c \in Conn |-> <<>>]
    /\ received = [c \in Conn |-> <<>>]
    /\ outbound = [c \in Conn |-> <<>>]
    /\ idle = [c \in Conn |-> 0]
    /\ idleClosed = {}
    /\ uncaught = "none"
    /\ running = TRUE
    /\ lastUpgrade \in { [req |-> req, claimed |-> [r \in Reg |-> r = 1], seen |-> TRUE,
                           written |-> 1, destroyed |-> FALSE] : req \in Requests }

\* ------------------------------------------------------ accept a socket
Remove(s, c) == SelectSeq(s, LAMBDA x : x # c)

\* openJsonRpcSocket's callback: const webSocket = toIWebSocket(socket);
\* onOpen(webSocket), run by every invocation of openSocket's onOpen
OnOpenSharedChannel(c, st) ==
    [st EXCEPT !.onOpenCalls[c] = @ + 1,
               !.channels = IF @ = {} THEN {<< c, 1 >>} ELSE @]
OnOpen(c, st) ==
    [st EXCEPT !.onOpenCalls[c] = @ + 1,
               !.channels = @ \cup {<< c, st.onOpenCalls[c] + 1 >>}]

\* wss.on('connection', ws => { extWs.isAlive = true; ws.on('pong', ...) })
ConnectionHandler(c, st, isEmitted) ==
    IF isEmitted
    THEN [st EXCEPT !.isAlive[c] = "true", !.pongListeners[c] = @ + 1]
    ELSE st

\* the callback given to wss.handleUpgrade
UpgradeCallbackAlwaysBoth(c, st, state) ==
    [OnOpen(c, st) EXCEPT !.openListeners[c] = @ + 1]
UpgradeCallback(c, st, state) ==
    IF state = OPEN
    THEN OnOpen(c, st)
    ELSE [st EXCEPT !.openListeners[c] = @ + 1]

\* wss.handleUpgrade of registration r: the handshake either is aborted (an
\* HTTP error is written, the raw socket destroyed and the callback never
\* run) or answered, yielding a socket that joins wss.clients and is passed
\* to the callback. A server created with noServer emits 'connection' for
\* the socket only if the ws build does so from handleUpgrade
\* (emitsConnection).
HandleUpgrade(r, st, ok, state) ==
    IF ~ok
    THEN [st EXCEPT !.written = @ + 1, !.destroyed = TRUE]
    ELSE LET c == st.sockets + 1
             st1 == [st EXCEPT !.written = @ + 1,
                               !.sockets = c,
                               !.readyState[c] = state,
                               !.clients[r] = Append(@, c),
                               !.responsive = @ \cup {c}]
         IN UpgradeCallback(c, ConnectionHandler(c, st1, emitsConnection), state)

\* the 'upgrade' listener of registration r
UpgradeHandlerUnfiltered(r, st, req, ok, state) ==
    HandleUpgrade(r, st, ok, state)
UpgradeHandlerExclusive(r, st, req, ok, state) ==
    IF Claims(options[r], req) /\ st.written = 0
    THEN HandleUpgrade(r, [st EXCEPT !.claimed[r] = TRUE], ok, state)
    ELSE st
UpgradeHandler(r, st, req, ok, state) ==
    IF Claims(options[r], req)
    THEN HandleUpgrade(r, [st EXCEPT !.claimed[r] = TRUE], ok, state)
    ELSE st

\* options.server emits 'upgrade': the listeners of the registrations run
\* one after the other, in the order the registrations were made
RECURSIVE UpgradeAll(_, _, _, _, _)
UpgradeAll(r, st, req, ok, state) ==
    IF r > MaxReg THEN st
    ELSE UpgradeAll(r + 1, UpgradeHandler(r, st, req, ok[r], state[r]), req, ok, state)

\* what wss.handleUpgrade can come to for the registrations that claim the
\* request: the handshake is aborted, or yields a CONNECTING or an OPEN socket
Outcomes(req) ==
    { o \in [Reg -> [ok : BOOLEAN, state : {CONNECTING, OPEN}]] :
         \A r \in Reg : (~Claims(options[r], req) \/ ~o[r].ok) => o[r] = [ok |-> FALSE, state |-> OPEN] }

\* options.server.on('upgrade', (request, socket, head) => ...)
Upgrade(req) ==
    /\ running
    /\ \E o \in Outcomes(req) :
          /\ sockets + Cardinality({r \in Reg : o[r].ok}) <= MaxConn
          /\ \E st \in { UpgradeAll(1,
                            [sockets |-> sockets, readyState |-> readyState,
                             clients |-> clients, isAlive |-> isAlive,
                             pongListeners |-> pongListeners,
                             openListeners |-> openListeners,
                             onOpenCalls |-> onOpenCalls, channels |-> channels,
                             responsive |-> responsive,
                             claimed |-> [r \in Reg |-> FALSE],
                             written |-> 0, destroyed |-> FALSE],
                            req, [r \in Reg |-> o[r].ok], [r \in Reg |-> o[r].state]) } :
                /\ sockets' = st.sockets
                /\ readyState' = st.readyState
                /\ clients' = st.clients
                /\ isAlive' = st.isAlive
                /\ pongListeners' = st.pongListeners
                /\ openListeners' = st.openListeners
                /\ onOpenCalls' = st.onOpenCalls
                /\ channels' = st.channels
                /\ responsive' = st.responsive
                /\ lastUpgrade' = [req |-> req, claimed |-> st.claimed, seen |-> TRUE,
                                   written |-> st.written, destroyed |-> st.destroyed]
    /\ uncaught' = "none"
    /\ UNCHANGED << options, emitsConnection, pendingPong, tickCount, channelVars,
                    running >>

\* the socket's 'open' event: webSocket.on('open', () => onOpen(...))
SocketOpen(c) ==
    /\ running
    /\ c <= sockets
    /\ readyState[c] = CONNECTING
    /\ readyState' = [readyState EXCEPT ![c] = OPEN]
    /\ onOpenCalls' = [onOpenCalls EXCEPT ![c] = @ + openListeners[c]]
    /\ channels' = channels \cup
                      {<< c, k >> : k \in (onOpenCalls[c] + 1)..(onOpenCalls[c] + openListeners[c])}
    /\ uncaught' = "none"
    /\ UNCHANGED << options, emitsConnection, sockets, clients, isAlive, pongListeners,
                    openListeners, pendingPong, responsive, tickCount,
                    channelVars, running, lastUpgrade >>

\* ------------------------------------------------------ heartbeat timer
\* the body of wss.clients.forEach for one socket: ws.ping("ping") fails on
\* a socket that is not OPEN, either by throwing (the exception leaves the
\* timer callback and the remaining sockets are not visited) or silently.
ProbeOne(c, st, throws) ==
    LET pingOk == readyState[c] = OPEN
    IN IF ~pingOk /\ throws
       THEN [st EXCEPT !.threw = TRUE, !.responsive = @ \ {c}]
       ELSE LET st1 == [st EXCEPT
                          !.pendingPong[c] = @ + (IF pingOk THEN 1 ELSE 0),
                          !.pongListeners[c] = @ + 1,
                          !.responsive = IF pingOk /\ st.pendingPong[c] = 0
                                         THEN @ ELSE @ \ {c}]
            IN IF st1.isAlive[c] = "false"
               THEN st1                                 \* return; // ws.terminate();
               ELSE [st1 EXCEPT !.isAlive[c] = "false"]

RECURSIVE ProbeAll(_, _, _)
ProbeAll(cs, st, throws) ==
    IF cs = <<>> \/ st.threw THEN st
    ELSE ProbeAll(Tail(cs), ProbeOne(Head(cs), st, throws), throws)

\* setInterval(() => { wss.clients.forEach(...) }, 10000)
TimerTick(r) ==
    /\ running
    /\ tickCount[r] < MaxTicks
    /\ tickCount' = [tickCount EXCEPT ![r] = @ + 1]
    /\ \E throws \in BOOLEAN, survives \in BOOLEAN :
         LET st == ProbeAll(clients[r],
                            [isAlive |-> isAlive, pongListeners |-> pongListeners,
                             pendingPong |-> pendingPong, responsive |-> responsive,
                             threw |-> FALSE],
                            throws)
         IN /\ isAlive' = st.isAlive
            /\ pongListeners' = st.pongListeners
            /\ pendingPong' = st.pendingPong
            /\ responsive' = st.responsive
            /\ IF st.threw
               THEN uncaught' = "timer" /\ running' = survives
               ELSE uncaught' = "none" /\ UNCHANGED running
    /\ UNCHANGED << options, emitsConnection, sockets, readyState, clients, openListeners,
                    onOpenCalls, channels, channelVars, lastUpgrade >>

\* the socket's 'pong' event: every registered listener sets extWs.isAlive = true
PeerPongIgnored(c) ==
    /\ running
    /\ c <= sockets
    /\ readyState[c] \in {OPEN, CLOSING}
    /\ pendingPong[c] > 0
    /\ pendingPong' = [pendingPong EXCEPT ![c] = @ - 1]
    /\ uncaught' = "none"
    /\ UNCHANGED << options, emitsConnection, sockets, readyState, clients, isAlive,
                    pongListeners, openListeners, onOpenCalls, channels, responsive,
                    tickCount, channelVars, running, lastUpgrade >>
PeerPong(c) ==
    /\ running
    /\ c <= sockets
    /\ readyState[c] \in {OPEN, CLOSING}
    /\ pendingPong[c] > 0
    /\ pendingPong' = [pendingPong EXCEPT ![c] = @ - 1]
    /\ isAlive' = [isAlive EXCEPT ![c] = IF pongListeners[c] > 0 THEN "true" ELSE @]
    /\ uncaught' = "none"
    /\ UNCHANGED << options, emitsConnection, sockets, readyState, clients, pongListeners,
                    openListeners, onOpenCalls, channels, responsive, tickCount,
                    channelVars, running, lastUpgrade >>

\* ------------------------------------------------------ channel adapter
\* openJsonRpcSocket wraps the socket with toIWebSocket inside onOpen
HasChannel(c) == \E ch \in channels : ch[1] = c

\* EventEmitter.emit: event number n of the socket reaches the listeners of
\* the list obs one after the other, first to last
Emit(n, event, obs) == [i \in 1..Len(obs) |-> << n, event, obs[i] >>]

\* onMessage: cb => webSocket.on('message', cb)
OnMessagePrepending(c) ==
    /\ running
    /\ HasChannel(c)
    /\ msgObs' = [msgObs EXCEPT ![c] = << Len(@) + 1 >> \o @]
    /\ uncaught' = "none"
    /\ UNCHANGED << options, emitsConnection, sockets, connVars, tickCount, closeObs,
                    closeLate, closeFired, errObs, errCalls, closeCalls,
                    disposeCalls, sendLog, emitted, delivered, pingVars,
                    running, lastUpgrade >>
OnMessage(c) ==
    /\ running
    /\ HasChannel(c)
    /\ msgObs' = [msgObs EXCEPT ![c] = Append(@, Len(@) + 1)]
    /\ uncaught' = "none"
    /\ UNCHANGED << options, emitsConnection, sockets, connVars, tickCount, closeObs,
                    closeLate, closeFired, errObs, errCalls, closeCalls,
                    disposeCalls, sendLog, emitted, delivered, pingVars,
                    running, lastUpgrade >>

\* onClose: cb => webSocket.on('close', cb)
OnClose(c) ==
    /\ running
    /\ HasChannel(c)
    /\ LET o == Len(closeObs[c]) + 1
       IN /\ closeObs' = [closeObs EXCEPT ![c] = Append(@, o)]
          /\ closeLate' = [closeLate EXCEPT
                             ![c] = IF readyState[c] = CLOSED THEN @ \cup {o} ELSE @]
    /\ uncaught' = "none"
    /\ UNCHANGED << options, emitsConnection, sockets, connVars, tickCount, closeFired,
                    errObs, errCalls, closeCalls, disposeCalls, sendLog,
                    fanVars, pingVars, running, lastUpgrade >>

\* onError: cb => webSocket.on('error', cb)
OnError(c) ==
    /\ running
    /\ HasChannel(c)
    /\ errObs' = [errObs EXCEPT ![c] = @ + 1]
    /\ uncaught' = "none"
    /\ UNCHANGED << options, emitsConnection, sockets, connVars, tickCount, closeObs,
                    closeLate, closeFired, errCalls, closeCalls,
                    disposeCalls, sendLog, fanVars, pingVars, running, lastUpgrade >>

\* the socket's 'message' event reaches the observers registered through
\* onMessage
SocketMessage(c) ==
    /\ running
    /\ c <= sockets
    /\ readyState[c] \in {OPEN, CLOSING}
    /\ emitted' = [emitted EXCEPT ![c] = Append(@, "message")]
    /\ delivered' = [delivered EXCEPT
                       ![c] = @ \o Emit(Len(emitted[c]) + 1, "message", msgObs[c])]
    /\ uncaught' = "none"
    /\ UNCHANGED << options, emitsConnection, sockets, connVars, tickCount, closeObs,
                    closeLate, closeFired, errObs, errCalls, closeCalls,
                    disposeCalls, sendLog, msgObs, pingVars, running, lastUpgrade >>

\* the socket's 'error' event reaches the observers registered through onError
SocketError(c) ==
    /\ running
    /\ c <= sockets
    /\ readyState[c] # CLOSED
    /\ errObs[c] > 0
    /\ errCalls[c] < MaxErrors
    /\ errCalls' = [errCalls EXCEPT ![c] = @ + errObs[c]]
    /\ emitted' = [emitted EXCEPT ![c] = Append(@, "error")]
    /\ delivered' = [delivered EXCEPT
                       ![c] = @ \o Emit(Len(emitted[c]) + 1, "error",
                                        [i \in 1..errObs[c] |-> i])]
    /\ uncaught' = "none"
    /\ UNCHANGED << options, emitsConnection, sockets, connVars, tickCount, closeObs,
                    closeLate, closeFired, errObs, closeCalls, disposeCalls,
                    sendLog, msgObs, pingVars, running, lastUpgrade >>

\* the peer starts the closing handshake: the socket is CLOSING until the
\* transport ends, and stays in wss.clients meanwhile
PeerClosing(c) ==
    /\ running
    /\ c <= sockets
    /\ readyState[c] = OPEN
    /\ readyState' = [readyState EXCEPT ![c] = CLOSING]
    /\ uncaught' = "none"
    /\ UNCHANGED << options, emitsConnection, sockets, clients, isAlive, pongListeners,
                    openListeners, onOpenCalls, channels, pendingPong, responsive,
                    tickCount, channelVars, running, lastUpgrade >>

\* the socket's 'close' event: the socket is CLOSED, leaves wss.clients and
\* the observers registered through onClose run
SocketClose(c) ==
    /\ running
    /\ c <= sockets
    /\ readyState[c] # CLOSED
    /\ readyState' = [readyState EXCEPT ![c] = CLOSED]
    /\ clients' = [r \in Reg |-> Remove(clients[r], c)]
    /\ closeFired' = [closeFired EXCEPT
                        ![c] = [o \in ObsId |->
                                  IF o \in Range(closeObs[c]) THEN @[o] + 1 ELSE @[o]]]
    /\ emitted' = [emitted EXCEPT ![c] = Append(@, "close")]
    /\ delivered' = [delivered EXCEPT
                       ![c] = @ \o Emit(Len(emitted[c]) + 1, "close", closeObs[c])]
    /\ uncaught' = "none"
    /\ UNCHANGED << options, emitsConnection, sockets, isAlive, pongListeners, openListeners,
                    onOpenCalls, channels, pendingPong, responsive, tickCount,
                    closeObs, closeLate, errObs, errCalls, closeCalls,
                    disposeCalls, sendLog, msgObs, pingVars, running, lastUpgrade >>

\* dispose: () => { if (webSocket.readyState < ws.CLOSING) { webSocket.close(); } }
DisposeUnguarded(c) ==
    /\ running
    /\ HasChannel(c)
    /\ disposeCalls[c] < MaxDispose
    /\ disposeCalls' = [disposeCalls EXCEPT ![c] = @ + 1]
    /\ readyState' = [readyState EXCEPT ![c] = IF @ < CLOSING THEN CLOSING ELSE @]
    /\ closeCalls' = [closeCalls EXCEPT ![c] = @ + 1]
    /\ uncaught' = "none"
    /\ UNCHANGED << options, emitsConnection, sockets, clients, isAlive, pongListeners,
                    openListeners, onOpenCalls, channels, pendingPong, responsive,
                    tickCount, closeObs, closeLate, closeFired, errObs,
                    errCalls, sendLog, fanVars, pingVars, running, lastUpgrade >>
DisposeUntilClosed(c) ==
    /\ running
    /\ HasChannel(c)
    /\ disposeCalls[c] < MaxDispose
    /\ disposeCalls' = [disposeCalls EXCEPT ![c] = @ + 1]
    /\ IF readyState[c] < CLOSED
       THEN /\ readyState' = [readyState EXCEPT ![c] = CLOSING]
            /\ closeCalls' = [closeCalls EXCEPT ![c] = @ + 1]
       ELSE UNCHANGED << readyState, closeCalls >>
    /\ uncaught' = "none"
    /\ UNCHANGED << options, emitsConnection, sockets, clients, isAlive, pongListeners,
                    openListeners, onOpenCalls, channels, pendingPong, responsive,
                    tickCount, closeObs, closeLate, closeFired, errObs,
                    errCalls, sendLog, fanVars, pingVars, running, lastUpgrade >>
Dispose(c) ==
    /\ running
    /\ HasChannel(c)
    /\ disposeCalls[c] < MaxDispose
    /\ disposeCalls' = [disposeCalls EXCEPT ![c] = @ + 1]
    /\ IF readyState[c] < CLOSING
       THEN /\ readyState' = [readyState EXCEPT ![c] = CLOSING]
            /\ closeCalls' = [closeCalls EXCEPT ![c] = @ + 1]
       ELSE UNCHANGED << readyState, closeCalls >>
    /\ uncaught' = "none"
    /\ UNCHANGED << options, emitsConnection, sockets, clients, isAlive, pongListeners,
                    openListeners, onOpenCalls, channels, pendingPong, responsive,
                    tickCount, closeObs, closeLate, closeFired, errObs,
                    errCalls, sendLog, fanVars, pingVars, running, lastUpgrade >>

\* send: content => webSocket.send(content, error => { if (error) console.log(error) })
\* the transport reports an error whenever the socket is not OPEN, and may
\* report one for a failed write on an OPEN socket
SendSurfacingError(c, failed) ==
    /\ running
    /\ HasChannel(c)
    /\ sendLog[c] < MaxSends
    /\ readyState[c] # OPEN => failed
    /\ sendLog' = [sendLog EXCEPT ![c] = IF failed THEN @ + 1 ELSE @]
    /\ errCalls' = [errCalls EXCEPT ![c] = IF failed THEN @ + errObs[c] ELSE @]
    /\ uncaught' = "none"
    /\ UNCHANGED << options, emitsConnection, sockets, connVars, tickCount, closeObs,
                    closeLate, closeFired, errObs, closeCalls, disposeCalls,
                    fanVars, pingVars, running, lastUpgrade >>
Send(c, failed) ==
    /\ running
    /\ HasChannel(c)
    /\ sendLog[c] < MaxSends
    /\ readyState[c] # OPEN => failed
    /\ sendLog' = [sendLog EXCEPT ![c] = IF failed THEN @ + 1 ELSE @]
    /\ uncaught' = "none"
    /\ UNCHANGED << options, emitsConnection, sockets, connVars, tickCount, closeObs,
                    closeLate, closeFired, errObs, errCalls, closeCalls,
                    disposeCalls, fanVars, pingVars, running, lastUpgrade >>

\* --------------------------------------------------- protocol-ping mode
\* The liveness monitor of the protocol-ping mode, as sections 4.3 and 6 of
\* the design describe it: openSocket of connection.ts implements the
\* transport-ping mode only.
\* a message of the peer reaches the monitor and the observers registered
\* through onMessage: the monitor restarts the idle window and answers the
\* ping sentinel, and nothing else, with one pong sentinel
ProtocolMessageAnsweringAll(c, payload) ==
    /\ running
    /\ c <= sockets
    /\ readyState[c] = OPEN
    /\ received' = [received EXCEPT ![c] = Append(@, payload)]
    /\ idle' = [idle EXCEPT ![c] = 0]
    /\ outbound' = [outbound EXCEPT ![c] = Append(@, PongSentinel)]
    /\ emitted' = [emitted EXCEPT ![c] = Append(@, "message")]
    /\ delivered' = [delivered EXCEPT
                       ![c] = @ \o Emit(Len(emitted[c]) + 1, "message", msgObs[c])]
    /\ uncaught' = "none"
    /\ UNCHANGED << options, emitsConnection, sockets, connVars, tickCount, closeObs,
                    closeLate, closeFired, errObs, errCalls, closeCalls,
                    disposeCalls, sendLog, msgObs, idleClosed, running,
                    lastUpgrade >>
ProtocolMessageKeepingIdle(c, payload) ==
    /\ running
    /\ c <= sockets
    /\ readyState[c] = OPEN
    /\ received' = [received EXCEPT ![c] = Append(@, payload)]
    /\ outbound' = [outbound EXCEPT
                      ![c] = IF payload = PingSentinel THEN Append(@, PongSentinel) ELSE @]
    /\ emitted' = [emitted EXCEPT ![c] = Append(@, "message")]
    /\ delivered' = [delivered EXCEPT
                       ![c] = @ \o Emit(Len(emitted[c]) + 1, "message", msgObs[c])]
    /\ uncaught' = "none"
    /\ UNCHANGED << options, emitsConnection, sockets, connVars, tickCount, closeObs,
                    closeLate, closeFired, errObs, errCalls, closeCalls,
                    disposeCalls, sendLog, msgObs, idle, idleClosed, running,
                    lastUpgrade >>
ProtocolMessage(c, payload) ==
    /\ running
    /\ c <= sockets
    /\ readyState[c] = OPEN
    /\ received' = [received EXCEPT ![c] = Append(@, payload)]
    /\ idle' = [idle EXCEPT ![c] = 0]
    /\ outbound' = [outbound EXCEPT
                      ![c] = IF payload = PingSentinel THEN Append(@, PongSentinel) ELSE @]
    /\ emitted' = [emitted EXCEPT ![c] = Append(@, "message")]
    /\ delivered' = [delivered EXCEPT
                       ![c] = @ \o Emit(Len(emitted[c]) + 1, "message", msgObs[c])]
    /\ uncaught' = "none"
    /\ UNCHANGED << options, emitsConnection, sockets, connVars, tickCount, closeObs,
                    closeLate, closeFired, errObs, errCalls, closeCalls,
                    disposeCalls, sendLog, msgObs, idleClosed, running,
                    lastUpgrade >>

\* one time unit passes: the idle timeout closes every open socket from
\* which no message has been received for the whole window
IdleTimePasses ==
    /\ running
    /\ \E c \in Conn : c <= sockets /\ readyState[c] = OPEN
    /\ LET expired == {c \in Conn : c <= sockets /\ readyState[c] = OPEN
                                    /\ idle[c] + 1 >= IdleWindow}
       IN /\ idle' = [c \in Conn |->
                        IF c <= sockets /\ readyState[c] = OPEN THEN idle[c] + 1 ELSE idle[c]]
          /\ readyState' = [c \in Conn |-> IF c \in expired THEN CLOSING ELSE readyState[c]]
          /\ idleClosed' = idleClosed \cup expired
    /\ uncaught' = "none"
    /\ UNCHANGED << options, emitsConnection, sockets, clients, isAlive, pongListeners,
                    openListeners, onOpenCalls, channels, pendingPong, responsive,
                    tickCount, closeObs, closeLate, closeFired, errObs, errCalls,
                    closeCalls, disposeCalls, sendLog, fanVars, received, outbound,
                    running, lastUpgrade >>

\* ------------------------------------------------------- specifications
\* a registration that can claim a request; the pool of any other stays
\* empty and its timer finds nothing to visit
Claiming(r) == options[r] # NoOptions

\* accepting sockets into the pool, the sockets' own events and the timer's
\* first ticks over the pool
Next ==
    \/ \E req \in Requests : Upgrade(req)
    \/ \E c \in Conn : SocketOpen(c)
    \/ \E r \in Reg : Claiming(r) /\ tickCount[r] < MaxWideTicks /\ TimerTick(r)
    \/ \E c \in Conn : PeerPong(c)
    \/ \E c \in Conn : PeerClosing(c)
    \/ \E c \in Conn : SocketClose(c)

Spec == Init /\ [][Next]_vars

\* the acceptance of sockets and their opening and closing, without the timer
NextAccept ==
    \/ \E req \in Requests : Upgrade(req)
    \/ \E c \in Conn : SocketOpen(c)
    \/ \E c \in Conn : PeerClosing(c)
    \/ \E c \in Conn : SocketClose(c)

SpecAccept == Init /\ [][NextAccept]_vars

\* the heartbeat of a socket over the timer's cycles
NextHeartbeat ==
    \/ \E req \in Requests : sockets < MaxDeepConn /\ Upgrade(req)
    \/ \E c \in Conn : SocketOpen(c)
    \/ \E r \in Reg : Claiming(r) /\ TimerTick(r)
    \/ \E c \in Conn : PeerPong(c)
    \/ \E c \in Conn : PeerClosing(c)
    \/ \E c \in Conn : SocketClose(c)

SpecHeartbeat == Init /\ [][NextHeartbeat]_vars

\* the owner of a channel disposing it and observing its close, next to
\* the timer's ticks and the socket's own events
NextChannel ==
    \/ \E req \in Requests : sockets < MaxDeepConn /\ Upgrade(req)
    \/ \E c \in Conn : SocketOpen(c)
    \/ \E r \in Reg : Claiming(r) /\ tickCount[r] < MaxWideTicks /\ TimerTick(r)
    \/ \E c \in Conn : Len(closeObs[c]) < MaxObs /\ OnClose(c)
    \/ \E c \in Conn : PeerClosing(c)
    \/ \E c \in Conn : SocketClose(c)
    \/ \E c \in Conn : Dispose(c)

SpecChannel == Init /\ [][NextChannel]_vars

\* the owner of a channel sending on it and observing errors
NextSend ==
    \/ \E req \in Requests : sockets < MaxDeepConn /\ Upgrade(req)
    \/ \E c \in Conn : SocketOpen(c)
    \/ \E c \in Conn : errObs[c] < MaxObs /\ OnError(c)
    \/ \E c \in Conn : SocketError(c)
    \/ \E c \in Conn : PeerClosing(c)
    \/ \E c \in Conn : SocketClose(c)
    \/ \E c \in Conn : Dispose(c)
    \/ \E c \in Conn, failed \in BOOLEAN : Send(c, failed)

SpecSend == Init /\ [][NextSend]_vars

\* the owner of a channel registering observers of every kind and the
\* socket emitting its events to them
NextFanout ==
    \/ \E c \in Conn : Len(msgObs[c]) < MaxFanObs /\ OnMessage(c)
    \/ \E c \in Conn : errObs[c] < MaxFanObs /\ OnError(c)
    \/ \E c \in Conn : Len(closeObs[c]) < MaxFanObs /\ OnClose(c)
    \/ \E c \in Conn : Len(emitted[c]) < MaxMsgs /\ SocketMessage(c)
    \/ \E c \in Conn : SocketError(c)
    \/ \E c \in Conn : SocketClose(c)

SpecFanout == InitChannel /\ [][NextFanout]_vars

\* registrations sharing one transport server: every upgrade event reaches
\* the listener of each
NextRegs ==
    \/ \E req \in PairRequests : Upgrade(req)
    \/ \E c \in Conn : SocketOpen(c)
    \/ \E c \in Conn : SocketClose(c)

SpecRegs == InitRegs /\ [][NextRegs]_vars

\* registrations sharing one transport server, each running its own timer
\* over its own pool
NextRegsHeartbeat ==
    \/ \E req \in PairRequests : Upgrade(req)
    \/ \E c \in Conn : SocketOpen(c)
    \/ \E r \in Reg : Claiming(r) /\ tickCount[r] < MaxWideTicks /\ TimerTick(r)
    \/ \E c \in Conn : PeerClosing(c)

SpecRegsHeartbeat == InitRegs /\ [][NextRegsHeartbeat]_vars

\* a registration in protocol-ping mode: the peers' messages and the idle
\* timeout
NextProtocolPing ==
    \/ \E req \in Requests : sockets < MaxDeepConn /\ Upgrade(req)
    \/ \E c \in Conn : SocketOpen(c)
    \/ \E c \in Conn, payload \in Payloads :
          Len(received[c]) < MaxMsgs /\ ProtocolMessage(c, payload)
    \/ IdleTimePasses
    \/ \E c \in Conn : SocketClose(c)

SpecProtocolPing == Init /\ [][NextProtocolPing]_vars

\* the matcher applied to one upgrade event, over every option and request
NextMatch == \E req \in AllRequests : lastUpgrade = NoUpgrade /\ Upgrade(req)

SpecMatch == InitMatch /\ [][NextMatch]_vars

\* --------------------------------------------------------------- claims
TickStep(r) == tickCount'[r] # tickCount[r]
Pool(r) == Range(clients[r])
InPool(c) == \E r \in Reg : c \in Pool(r)
Visited(c) == pongListeners'[c] # pongListeners[c]

\* C1 (as claimed): an open connection the timer finds still awaiting the
\* pong of a probe it sent (the probe is unanswered and the alive flag is
\* false when the tick inspects it) is terminated by that tick: it is CLOSED
\* and out of the client pool afterwards.
C1_UnresponsiveTerminated ==
    [][\A r \in Reg : TickStep(r) =>
         \A c \in Pool(r) :
            (readyState[c] = OPEN /\ pendingPong[c] > 0 /\ isAlive[c] = "false") =>
               readyState'[c] = CLOSED /\ c \notin Range(clients'[r])]_vars

C3_TwoDisposesOneClose ==
    \A c \in Conn : disposeCalls[c] >= 2 => closeCalls[c] = 1

\* C3 (amended): dispose calls issue at most one close on the socket and
\* raise nothing: the first call issues it exactly when the socket is
\* CONNECTING or OPEN, and no later call issues one.
C3_DisposeIdempotent ==
    [][\A c \in Conn :
          disposeCalls'[c] # disposeCalls[c] =>
             /\ closeCalls'[c] = closeCalls[c] +
                   (IF disposeCalls[c] = 0 /\ readyState[c] < CLOSING THEN 1 ELSE 0)
             /\ closeCalls'[c] <= 1
             /\ uncaught' = "none"]_vars

C3_Witness ==
    \E c \in Conn :
       disposeCalls[c] = 2 /\ closeCalls[c] = 1 /\ readyState[c] = CLOSING

\* the part of a URL before its first "?" or "#"
PathPart(u) ==
    LET k == CHOOSE i \in 0..Len(u) :
                /\ \A j \in 1..i : u[j] \notin {"?", "#"}
                /\ i < Len(u) => u[i + 1] \in {"?", "#"}
    IN SubSeq(u, 1, k)

\* C4: with a path configured and no predicate, an upgrade request is claimed
\* exactly when the part of its URL before the query string and fragment
\* equals the path.
C4_PathMatch ==
    \A r \in Reg :
       (lastUpgrade.seen /\ Truthy(options[r].path) /\ options[r].matches = NoMatcher) =>
          (lastUpgrade.claimed[r] <=>
             /\ lastUpgrade.req.url # Undefined
             /\ PathPart(lastUpgrade.req.url) = options[r].path)

C4_Witness ==
    \E r \in Reg :
       /\ lastUpgrade.seen
       /\ lastUpgrade.claimed[r]
       /\ options[r].matches = NoMatcher
       /\ "?" \in Range(lastUpgrade.req.url)
       /\ sockets = 1

\* C5: with no path configured, an upgrade request is claimed exactly when a
\* predicate is configured and returns true for it; with neither configured
\* nothing is claimed.
C5_PredicateMatch ==
    \A r \in Reg :
       (lastUpgrade.seen /\ ~Truthy(options[r].path)) =>
          (lastUpgrade.claimed[r] <=>
             /\ options[r].matches # NoMatcher
             /\ Matches(options[r].matches, lastUpgrade.req))

C5_Witness ==
    \E r \in Reg :
       /\ lastUpgrade.seen
       /\ lastUpgrade.claimed[r]
       /\ options[r].path = Undefined
       /\ options[r].matches = "matchQuery"
       /\ sockets = 1

\* C6: onOpen has run exactly once for a socket that is or was open and not
\* at all for one that has not opened: it runs only in a step that leaves the
\* socket OPEN, and never for a socket that closes without opening.
C6_OnOpenOnce ==
    /\ [](\A c \in Conn :
             /\ onOpenCalls[c] <= 1
             /\ (c <= sockets /\ readyState[c] \in {OPEN, CLOSING}) => onOpenCalls[c] = 1
             /\ (c > sockets \/ readyState[c] = CONNECTING) => onOpenCalls[c] = 0)
    /\ [][\A c \in Conn :
             /\ onOpenCalls'[c] # onOpenCalls[c] =>
                   readyState'[c] = OPEN /\ (c > sockets \/ readyState[c] = CONNECTING)
             /\ (c <= sockets /\ readyState[c] = CONNECTING /\ readyState'[c] = CLOSED) =>
                   onOpenCalls'[c] = 0]_vars

C6_Witness ==
    \E c \in Conn :
       /\ c <= sockets
       /\ openListeners[c] = 1
       /\ onOpenCalls[c] = 1
       /\ readyState[c] = OPEN

\* C7: whatever the interleaving of timer ticks, dispose calls and the
\* socket's own close, every close observer registered before the socket
\* closed has run exactly once when the socket is CLOSED and not before, and
\* no close is issued on a socket that is CLOSING or CLOSED (a tick issues
\* none at all).
C7_CloseRaceSafe ==
    /\ [](\A c \in Conn : \A o \in Range(closeObs[c]) :
             closeFired[c][o] =
                IF readyState[c] = CLOSED /\ o \notin closeLate[c] THEN 1 ELSE 0)
    /\ [][\A c \in Conn :
             /\ closeCalls'[c] # closeCalls[c] => readyState[c] < CLOSING
             /\ (\E r \in Reg : TickStep(r)) => readyState'[c] = readyState[c]]_vars

C7_Witness ==
    \E c \in Conn :
       /\ readyState[c] = CLOSED
       /\ \E r \in Reg : tickCount[r] >= 1
       /\ pongListeners[c] >= 1
       /\ disposeCalls[c] = 2
       /\ closeCalls[c] = 1
       /\ closeObs[c] # <<>>
       /\ closeFired[c][1] = 1

\* C8 (as claimed): in a tick over a pool of OPEN and CLOSING sockets, every
\* open socket is probed and every socket that is already CLOSING, whose
\* probe fails, is treated as terminated; no exception leaves the timer
\* callback and the process keeps running.
C8_ProbeFailureIsolated ==
    [][\A r \in Reg :
         (TickStep(r) /\ \A c \in Pool(r) : readyState[c] \in {OPEN, CLOSING}) =>
            /\ \A c \in Pool(r) :
                  /\ readyState[c] = OPEN => pendingPong'[c] = pendingPong[c] + 1
                  /\ readyState[c] = CLOSING =>
                        readyState'[c] = CLOSED /\ c \notin Range(clients'[r])
            /\ uncaught' = "none"
            /\ running']_vars

\* C9 (as claimed): an open connection of the pool whose alive flag has been
\* set has exactly one pong observer, however many ticks have run.
C9_OnePongObserver ==
    \A r \in Reg : \A c \in Pool(r) :
       (readyState[c] = OPEN /\ isAlive[c] # "undefined") => pongListeners[c] = 1

\* C10: a send the transport reports an error for writes one line to the
\* log and does nothing else: no socket changes state or leaves the pool, no
\* error observer runs, no exception escapes and the process keeps running.
C10_SendFailureLocal ==
    [][\A c \in Conn :
          sendLog'[c] # sendLog[c] =>
             /\ sendLog'[c] = sendLog[c] + 1
             /\ readyState' = readyState
             /\ clients' = clients
             /\ errCalls' = errCalls
             /\ uncaught' = "none"
             /\ running' = running]_vars

C10_Witness ==
    \E c \in Conn :
       /\ sendLog[c] = 1
       /\ errObs[c] >= 1
       /\ errCalls[c] = 0
       /\ readyState[c] = OPEN

\* the number of observers registered on the channel of socket c for an event
Registered(c, event) ==
    CASE event = "message" -> Len(msgObs[c])
      [] event = "error" -> errObs[c]
      [] event = "close" -> Len(closeObs[c])

\* C11: each event a socket emits invokes every observer registered for it
\* on the channel so far exactly once, first registered first, and nothing
\* else invokes an observer; the invocations of one socket follow the order
\* of its events.
C11_ObserverFanOut ==
    /\ [][\A c \in Conn :
             IF emitted'[c] # emitted[c]
             THEN \E event \in {"message", "error", "close"} :
                     /\ emitted'[c] = Append(emitted[c], event)
                     /\ delivered'[c] =
                           delivered[c] \o
                              [i \in 1..Registered(c, event) |->
                                 << Len(emitted[c]) + 1, event, i >>]
             ELSE delivered'[c] = delivered[c]]_vars
    /\ [](\A c \in Conn : \A i, j \in 1..Len(delivered[c]) :
             /\ delivered[c][i][2] = emitted[c][delivered[c][i][1]]
             /\ i < j => delivered[c][i][1] <= delivered[c][j][1])

C11_Witness ==
    \E c \in Conn :
       /\ emitted[c] = << "message", "error", "close" >>
       /\ delivered[c] = << << 1, "message", 1 >>, << 1, "message", 2 >>,
                            << 2, "error", 1 >>, << 2, "error", 2 >>,
                            << 3, "close", 1 >>, << 3, "close", 2 >> >>

\* a step in which the transport server emitted 'upgrade'
UpgradeStep == lastUpgrade' # lastUpgrade \/ sockets' # sockets
Claimers(u) == {r \in Reg : u.claimed[r]}

\* C12: a registration that does not claim an upgrade event leaves it alone:
\* its pool is unchanged and only the claiming registrations write to the
\* raw socket or accept a socket; an event no registration claims leaves the
\* raw socket unwritten and undestroyed and changes no socket, pool, 'open'
\* listener, onOpen invocation or channel; no exception escapes the listener.
C12_UnclaimedUntouched ==
    [][UpgradeStep =>
         /\ \A r \in Reg : ~lastUpgrade'.claimed[r] => clients'[r] = clients[r]
         /\ lastUpgrade'.written <= Cardinality(Claimers(lastUpgrade'))
         /\ sockets' - sockets <= Cardinality(Claimers(lastUpgrade'))
         /\ Claimers(lastUpgrade') = {} =>
               /\ lastUpgrade'.written = 0
               /\ ~lastUpgrade'.destroyed
               /\ sockets' = sockets
               /\ clients' = clients
               /\ readyState' = readyState
               /\ openListeners' = openListeners
               /\ onOpenCalls' = onOpenCalls
               /\ channels' = channels
         /\ uncaught' = "none"
         /\ running']_vars

C12_Witness ==
    /\ lastUpgrade.seen
    /\ Claimers(lastUpgrade) = {}
    /\ lastUpgrade.req.url = << "/" >>
    /\ lastUpgrade.written = 0
    /\ sockets = 1
    /\ onOpenCalls[1] = 1

\* a request without URL, and one whose URL is not an absolute path
MissingUrl(u) == u = Undefined \/ u = <<>>
MalformedUrl(u) == ~MissingUrl(u) /\ u[1] # "/"

\* C13 (as claimed): a request whose URL is missing or malformed is claimed
\* by a registration exactly when its predicate is configured and returns
\* true, whatever its path.
C13_MalformedNeverPathClaimed ==
    \A r \in Reg :
       (lastUpgrade.seen /\ (MissingUrl(lastUpgrade.req.url) \/ MalformedUrl(lastUpgrade.req.url))) =>
          (lastUpgrade.claimed[r] <=>
             /\ options[r].matches # NoMatcher
             /\ Matches(options[r].matches, lastUpgrade.req))

\* C13 (amended): a request whose URL is missing or empty, or has nothing
\* before its query string or fragment, is claimed by a registration exactly
\* when its predicate is configured and returns true, whatever its path.
C13_NoPathNeverPathClaimed ==
    \A r \in Reg :
       (lastUpgrade.seen /\ (MissingUrl(lastUpgrade.req.url) \/ PathPart(lastUpgrade.req.url) = <<>>)) =>
          (lastUpgrade.claimed[r] <=>
             /\ options[r].matches # NoMatcher
             /\ Matches(options[r].matches, lastUpgrade.req))

C13_Witness ==
    \E r \in Reg :
       /\ lastUpgrade.seen
       /\ lastUpgrade.req.url = Undefined
       /\ Truthy(options[r].path)
       /\ options[r].matches = "matchAll"
       /\ lastUpgrade.claimed[r]
       /\ sockets = 1

\* C14 (as claimed): the alive flag of a socket is true once the socket is
\* accepted; afterwards it becomes false only in a tick of the timer that
\* sends the socket a probe, and true only by a pong of that socket; no other
\* step changes it.
C14_AliveFlagLifecycle ==
    [][\A c \in Conn :
          /\ (c > sockets /\ c <= sockets') => isAlive'[c] = "true"
          /\ (c <= sockets /\ isAlive'[c] # isAlive[c]) =>
                \/ /\ isAlive'[c] = "false"
                   /\ \E r \in Reg : TickStep(r) /\ c \in Pool(r)
                   /\ pendingPong'[c] = pendingPong[c] + 1
                \/ /\ isAlive'[c] = "true"
                   /\ pendingPong'[c] = pendingPong[c] - 1]_vars

\* the number of occurrences of payload p in the sequence s
Count(s, p) == Cardinality({i \in 1..Len(s) : s[i] = p})

\* C15: in protocol-ping mode a message received on an open socket is
\* answered with exactly one pong sentinel when it is the ping sentinel and
\* with nothing otherwise; the monitor sends the peer nothing else.
C15_PingAnsweredOnce ==
    /\ [][\A c \in Conn :
             IF received'[c] # received[c]
             THEN \E p \in Payloads :
                     /\ received'[c] = Append(received[c], p)
                     /\ outbound'[c] = IF p = PingSentinel
                                       THEN Append(outbound[c], PongSentinel)
                                       ELSE outbound[c]
             ELSE outbound'[c] = outbound[c]]_vars
    /\ [](\A c \in Conn :
             /\ Len(outbound[c]) = Count(received[c], PingSentinel)
             /\ \A i \in 1..Len(outbound[c]) : outbound[c][i] = PongSentinel)

C15_Witness ==
    \E c \in Conn :
       /\ received[c] = << "hello", PingSentinel >>
       /\ outbound[c] = << PongSentinel >>

\* C16: in protocol-ping mode every message restarts the idle window of its
\* socket; when time passes, an open socket is closed by the idle timeout
\* exactly if the whole window has gone by since its last message, and no
\* socket on which the window has not gone by is ever closed by the timeout.
C16_IdleTimeout ==
    /\ [][\A c \in Conn :
             /\ received'[c] # received[c] => idle'[c] = 0
             /\ (c <= sockets /\ readyState[c] = OPEN /\ idle'[c] # idle[c]
                   /\ received'[c] = received[c]) =>
                   /\ idle'[c] = idle[c] + 1
                   /\ (idle'[c] = IdleWindow) <=> (readyState'[c] = CLOSING /\ c \in idleClosed')
             /\ (c \in idleClosed' /\ c \notin idleClosed) => idle'[c] = IdleWindow]_vars
    /\ [](\A c \in Conn :
             /\ c \in idleClosed => idle[c] = IdleWindow /\ readyState[c] \in {CLOSING, CLOSED}
             /\ (c <= sockets /\ readyState[c] = OPEN) => idle[c] < IdleWindow)

C16_Witness ==
    \E c \in Conn :
       /\ c \in idleClosed
       /\ Len(received[c]) = 1
       /\ idle[c] = IdleWindow
       /\ readyState[c] = CLOSED

\* C17 (as claimed): a tick of the timer of registration r changes nothing
\* but the alive flag and the transport state (probes sent, socket state) of
\* the sockets in the pool of r: it adds no socket to a pool and removes
\* none, leaves the observers of every socket as they are, leaves the
\* sockets of the other registrations untouched and the process running.
C17_MonitorConfined ==
    [][\A r \in Reg : TickStep(r) =>
          /\ sockets' = sockets
          /\ clients' = clients
          /\ \A c \in Conn \ Pool(r) :
                /\ isAlive'[c] = isAlive[c]
                /\ readyState'[c] = readyState[c]
                /\ pendingPong'[c] = pendingPong[c]
          /\ pongListeners' = pongListeners
          /\ openListeners' = openListeners
          /\ onOpenCalls' = onOpenCalls
          /\ UNCHANGED << channels, channelVars >>
          /\ \A q \in Reg \ {r} : tickCount'[q] = tickCount[q]
          /\ running']_vars

\* what registration r decides about a request from its own options alone
OwnDecision(r, req) ==
    \/ /\ Truthy(options[r].path)
       /\ ~MissingUrl(req.url)
       /\ PathPart(req.url) = options[r].path
    \/ /\ options[r].matches # NoMatcher
       /\ Matches(options[r].matches, req)

\* C18: every registration on the transport server decides about an upgrade
\* event from its own options alone, whatever the others decide, and every
\* registration that claims the event performs its own handshake on the
\* request: one response per claimer is written to the raw socket, and a
\* socket a handshake yields joins the pool of the registration that made it.
C18_ClaimingNotExclusive ==
    /\ [](lastUpgrade.seen =>
             \A r \in Reg : lastUpgrade.claimed[r] <=> OwnDecision(r, lastUpgrade.req))
    /\ [][UpgradeStep =>
             /\ lastUpgrade'.written = Cardinality(Claimers(lastUpgrade'))
             /\ \A r \in Reg :
                   /\ Len(clients'[r]) \in {Len(clients[r]), Len(clients[r]) + 1}
                   /\ Len(clients'[r]) > Len(clients[r]) => lastUpgrade'.claimed[r]
             /\ \A c \in Conn :
                   (c > sockets /\ c <= sockets') =>
                      Cardinality({r \in Reg : c \in Range(clients'[r])}) = 1]_vars

C18_Witness ==
    /\ lastUpgrade.seen
    /\ lastUpgrade.claimed[1]
    /\ lastUpgrade.claimed[2]
    /\ lastUpgrade.written = 2
    /\ sockets = 2
    /\ clients[1] = << 1 >>
    /\ clients[2] = << 2 >>

\* the channels that wrap socket c
ChannelsOf(c) == {ch \in channels : ch[1] = c}
Opened(c) == c <= sockets /\ readyState[c] # CONNECTING

\* C19: toIWebSocket has been applied exactly once for every socket for which
\* onOpen has run, and onOpen has received that one channel; there is no
\* channel for a socket that has not opened, the channels are as many as the
\* sockets they wrap, and a channel, once built, wraps its socket for good.
C19_OneChannelPerConnection ==
    /\ [](\A c \in Conn :
             /\ Cardinality(ChannelsOf(c)) = onOpenCalls[c]
             /\ (c <= sockets /\ readyState[c] \in {OPEN, CLOSING}) =>
                   Cardinality(ChannelsOf(c)) = 1
             /\ Cardinality(ChannelsOf(c)) <= 1
             /\ ~Opened(c) => ChannelsOf(c) = {})
    /\ [](Cardinality(channels) = Cardinality({c \in Conn : ChannelsOf(c) # {}}))
    /\ [][channels \subseteq channels']_vars

C19_Witness ==
    /\ sockets = 2
    /\ readyState[1] = CLOSING
    /\ readyState[2] = OPEN
    /\ openListeners[2] = 1
    /\ channels = {<< 1, 1 >>, << 2, 1 >>}

\* C20: a dispose call issues a close on the socket exactly if the socket is
\* CONNECTING or OPEN when it is called; called on a CLOSING or CLOSED socket
\* it changes no socket state, pool or observer, invokes no observer and
\* makes no call on the transport (no close, no probe, nothing sent).
C20_DisposeOnlyBeforeClosing ==
    [][\A c \in Conn :
          disposeCalls'[c] # disposeCalls[c] =>
             /\ closeCalls'[c] = closeCalls[c] + (IF readyState[c] \in {CONNECTING, OPEN} THEN 1 ELSE 0)
             /\ readyState[c] \in {CONNECTING, OPEN} => readyState'[c] = CLOSING
             /\ readyState[c] \in {CLOSING, CLOSED} =>
                   /\ readyState' = readyState
                   /\ clients' = clients
                   /\ closeCalls' = closeCalls
                   /\ pendingPong' = pendingPong
                   /\ UNCHANGED << pongListeners, openListeners, closeObs, closeLate,
                                   closeFired, errObs, errCalls, sendLog, fanVars,
                                   outbound >>]_vars

C20_Witness ==
    \E c \in Conn :
       /\ disposeCalls[c] = 1
       /\ closeCalls[c] = 0
       /\ readyState[c] = CLOSING
       /\ \E r \in Reg : tickCount[r] >= 1

\* C21 (as claimed): the timer of a registration is never stopped, and each
\* of its ticks sends a probe to every OPEN socket that is in the pool when
\* it fires, a socket whose alive flag is already false included, and leaves
\* the timer running.
C21_MonitorNeverStops ==
    /\ [][running => running']_vars
    /\ [][\A r \in Reg : TickStep(r) =>
             \A c \in Pool(r) :
                readyState[c] = OPEN => pendingPong'[c] = pendingPong[c] + 1]_vars

=============================================================================
